---- MODULE Spec2Model ----
(***************************************************************************)
(* Car sales management backend (backend/crud.py, backend/main.py,         *)
(* backend/file_loader.py): the persisted tables cars, movements, buyers   *)
(* and operations, the HTTP handlers that change them and the CSV batch    *)
(* importer.                                                               *)
(*                                                                         *)
(* String literals of the source are Cyrillic; the module writes them in   *)
(* ASCII:                                                                  *)
(*   status   "на складе" -> "in_stock"     "в демозале" -> "in_showroom"  *)
(*            "на сервисе" -> "in_service"  "продан"     -> "sold"         *)
(*   location "склад" -> "warehouse"  "демозал" -> "showroom"              *)
(*            "сервис" -> "service"                                        *)
(*   operation_type "поступление" -> "arrival"                             *)
(*            "перемещение" -> "movement"   "продажа" -> "sale"            *)
(*                                                                         *)
(* A nullable column holds None (<<>>) or Some(v) (<<v>>).                 *)
(***************************************************************************)
EXTENDS Integers, Sequences, FiniteSets, TLC

VARIABLES
    cars,        \* table cars: set of Car rows
    movements,   \* table movements: set of Movement rows
    buyers,      \* table buyers: set of Buyer rows
    operations,  \* table operations: set of Operation rows
    job,         \* the batch import in progress (process_file), or Idle
    last,        \* the last call made: handler, arguments, outcome
    steps        \* number of calls made so far

vars == <<cars, movements, buyers, operations, job, last, steps>>

\* ------------------------------------------------------------------ bounds
\* calls made in a run, data rows in a file, fields in an update request
MaxSteps == 3
MaxRows == 2
MaxUpdateFields == 1

\* ------------------------------------------------------------------ values
None == <<>>
Some(v) == <<v>>
IsNone(o) == o = <<>>
Val(o) == o[1]

VINs == {"1HGCM82633A123456", "JH4KA7561PC008269"}
Models == {"Sedan X", "SUV Y"}
Colors == {"Black"}
UtcNow == {3}
Statuses == {"in_stock", "in_showroom", "in_service", "sold"}
\* location strings as a caller may write them: the three site names, a site
\* name in another case and with surrounding blanks, and an unknown site
Locations == {"warehouse", "showroom", " Service ", "lot"}

\* str.lower().strip() on the location strings of the model
LowerStrip(s) ==
    CASE s = " Service " -> "service"
      [] s = "Showroom" -> "showroom"
      [] s = " warehouse" -> "warehouse"
      [] OTHER -> s

Max(S) == CHOOSE x \in S : \A y \in S : y <= x
Min(S) == CHOOSE x \in S : \A y \in S : x <= y

\* SQLite INTEGER PRIMARY KEY (no AUTOINCREMENT keyword): max(rowid) + 1
NextId(rows) == IF rows = {} THEN 1 ELSE Max({r.id : r \in rows}) + 1

DB == [cars |-> cars, movements |-> movements, buyers |-> buyers,
       operations |-> operations]

\* ------------------------------------------------------------------ crud.py
get_car(db, car_id) ==
    IF \E c \in db.cars : c.id = car_id
    THEN Some(CHOOSE c \in db.cars : c.id = car_id)
    ELSE None

get_car_by_vin(db, vin) ==
    IF \E c \in db.cars : c.vin = vin
    THEN Some(CHOOSE c \in db.cars : c.vin = vin)
    ELSE None

\* faulty variant of get_buyer_by_name: the name is matched whatever its case
get_buyer_by_name_AnyCase(db, name) ==
    LET lower(n) == IF n = "Jane Doe" THEN "jane doe" ELSE n
        found == {b \in db.buyers : lower(b.name) = lower(name)}
    IN  IF found = {} THEN None
        ELSE Some(CHOOSE b \in found : b.id = Min({x.id : x \in found}))

get_buyer_by_name(db, name) ==
    LET found == {b \in db.buyers : b.name = name}
    IN  IF found = {} THEN None
        ELSE Some(CHOOSE b \in found : b.id = Min({x.id : x \in found}))

\* Column constraints of table cars, checked by the storage at commit
NotNullColumns == {"vin", "model", "color", "purchase_price", "status",
                   "location", "arrival_date"}

UniqueVinOk(others, vin) == \A c \in others : c.vin # vin

\* faulty variant of _status_by_location: the name is looked up as it is given
_status_by_location_Exact(to_location) ==
    LET key == to_location
    IN  CASE key = "warehouse" -> "in_stock"
          [] key = "showroom" -> "in_showroom"
          [] key = "service" -> "in_service"
          [] OTHER -> "in_stock"

_status_by_location(to_location) ==
    LET key == LowerStrip(to_location)
    IN  CASE key = "warehouse" -> "in_stock"
          [] key = "showroom" -> "in_showroom"
          [] key = "service" -> "in_service"
          [] OTHER -> "in_stock"

Result(db, ret, exc) == [db |-> db, ret |-> ret, exc |-> exc]

create_car(db, car, now, fault) ==
    LET db_car == [id |-> NextId(db.cars), vin |-> car.vin, model |-> car.model,
                   color |-> car.color, purchase_price |-> car.purchase_price,
                   sale_price |-> None, status |-> "in_stock",
                   location |-> "warehouse", arrival_date |-> car.arrival_date,
                   sale_date |-> None, buyer_id |-> None]
        db_operation == [id |-> NextId(db.operations), car_id |-> db_car.id,
                         operation_type |-> "arrival", date |-> now,
                         details |-> <<db_car.vin, db_car.model>>,
                         user |-> "system"]
        db1 == [db EXCEPT !.cars = @ \cup {db_car}]
        db2 == [db1 EXCEPT !.operations = @ \cup {db_operation}]
    IN  IF ~UniqueVinOk(db.cars, car.vin) THEN Result(db, None, "IntegrityError")
        ELSE IF fault = "car_commit" THEN Result(db, None, "OperationalError")
        ELSE IF fault = "operation_commit"
             THEN Result(db1, None, "OperationalError")
        ELSE Result(db2, Some(db_car), "none")

\* setattr(db_car, field, value) for every field of update_data
\* faulty variant of SetAttrs: a field given as null is taken as not given
SetAttrs_ExcludeNone(db_car, update_data) ==
    LET new(f) == IF f \in DOMAIN update_data /\ ~IsNone(update_data[f])
                  THEN update_data[f]
                  ELSE IF f \in NotNullColumns THEN Some(db_car[f])
                  ELSE db_car[f]
    IN  [f \in {"vin", "model", "color", "purchase_price", "sale_price",
                "status", "location", "arrival_date", "sale_date",
                "buyer_id"} |-> new(f)]

SetAttrs(db_car, update_data) ==
    LET new(f) == IF f \in DOMAIN update_data THEN update_data[f]
                  ELSE IF f \in NotNullColumns THEN Some(db_car[f])
                  ELSE db_car[f]
    IN  [f \in {"vin", "model", "color", "purchase_price", "sale_price",
                "status", "location", "arrival_date", "sale_date",
                "buyer_id"} |-> new(f)]

update_car(db, car_id, update_data, fault) ==
    LET found == get_car(db, car_id)
        db_car == Val(found)
        a == SetAttrs(db_car, update_data)
        updated == [id |-> db_car.id, vin |-> Val(a["vin"]),
                    model |-> Val(a["model"]), color |-> Val(a["color"]),
                    purchase_price |-> Val(a["purchase_price"]),
                    sale_price |-> a["sale_price"],
                    status |-> Val(a["status"]),
                    location |-> Val(a["location"]),
                    arrival_date |-> Val(a["arrival_date"]),
                    sale_date |-> a["sale_date"], buyer_id |-> a["buyer_id"]]
    IN  IF IsNone(found) THEN Result(db, None, "none")
        ELSE IF \E f \in NotNullColumns : IsNone(a[f])
             THEN Result(db, None, "IntegrityError")
        ELSE IF ~UniqueVinOk(db.cars \ {db_car}, updated.vin)
             THEN Result(db, None, "IntegrityError")
        ELSE IF fault = "commit" THEN Result(db, None, "OperationalError")
        ELSE Result([db EXCEPT !.cars = (@ \ {db_car}) \cup {updated}],
                    Some(updated), "none")

\* faulty variant of delete_car: the cascade forgets the filter on car_id
delete_car_AllOperations(db, car_id, fault) ==
    LET found == get_car(db, car_id)
        db_car == Val(found)
    IN  IF IsNone(found) THEN Result(db, FALSE, "none")
        ELSE IF fault = "commit" THEN Result(db, FALSE, "OperationalError")
        ELSE Result([db EXCEPT
                        !.operations = {},
                        !.movements = {m \in @ : m.car_id # car_id},
                        !.cars = @ \ {db_car}],
                    TRUE, "none")

\* faulty variant of delete_car: the Movements of the car are left behind
delete_car_KeepsMovements(db, car_id, fault) ==
    LET found == get_car(db, car_id)
        db_car == Val(found)
    IN  IF IsNone(found) THEN Result(db, FALSE, "none")
        ELSE IF fault = "commit" THEN Result(db, FALSE, "OperationalError")
        ELSE Result([db EXCEPT
                        !.operations = {o \in @ : o.car_id # car_id},
                        !.cars = @ \ {db_car}],
                    TRUE, "none")

delete_car(db, car_id, fault) ==
    LET found == get_car(db, car_id)
        db_car == Val(found)
    IN  IF IsNone(found) THEN Result(db, FALSE, "none")
        ELSE IF fault = "commit" THEN Result(db, FALSE, "OperationalError")
        ELSE Result([db EXCEPT
                        !.operations = {o \in @ : o.car_id # car_id},
                        !.movements = {m \in @ : m.car_id # car_id},
                        !.cars = @ \ {db_car}],
                    TRUE, "none")

\* faulty variant of move_car: the check of from_location is skipped
move_car_NoLocationCheck(db, vin, from_location, to_location, date, fault) ==
    LET found == get_car_by_vin(db, vin)
        db_car == Val(found)
        db_movement == [id |-> NextId(db.movements), car_id |-> db_car.id,
                        date |-> date, from_location |-> db_car.location,
                        to_location |-> to_location]
        moved == [db_car EXCEPT !.location = to_location,
                                !.status = _status_by_location(to_location)]
        db_operation == [id |-> NextId(db.operations), car_id |-> db_car.id,
                         operation_type |-> "movement", date |-> date,
                         details |-> <<vin, db_movement.from_location,
                                       to_location>>,
                         user |-> "system"]
    IN  IF IsNone(found) THEN Result(db, None, "none")
        ELSE IF FALSE
             THEN Result(db, None, "none")
        ELSE IF fault \in {"flush", "commit"}
             THEN Result(db, None, "OperationalError")
        ELSE Result([db EXCEPT
                        !.movements = @ \cup {db_movement},
                        !.cars = (@ \ {db_car}) \cup {moved},
                        !.operations = @ \cup {db_operation}],
                    Some(db_movement), "none")

\* faulty variant of move_car: the Movement is committed where the code flushes it
move_car_CommitsMovement(db, vin, from_location, to_location, date, fault) ==
    LET found == get_car_by_vin(db, vin)
        db_car == Val(found)
        db_movement == [id |-> NextId(db.movements), car_id |-> db_car.id,
                        date |-> date, from_location |-> db_car.location,
                        to_location |-> to_location]
        moved == [db_car EXCEPT !.location = to_location,
                                !.status = _status_by_location(to_location)]
        db_operation == [id |-> NextId(db.operations), car_id |-> db_car.id,
                         operation_type |-> "movement", date |-> date,
                         details |-> <<vin, db_movement.from_location,
                                       to_location>>,
                         user |-> "system"]
    IN  IF IsNone(found) THEN Result(db, None, "none")
        ELSE IF from_location # "" /\ db_car.location # from_location
             THEN Result(db, None, "none")
        ELSE IF fault = "flush" THEN Result(db, None, "OperationalError")
        ELSE IF fault = "commit"
             THEN Result([db EXCEPT !.movements = @ \cup {db_movement}], None,
                         "OperationalError")
        ELSE Result([db EXCEPT
                        !.movements = @ \cup {db_movement},
                        !.cars = (@ \ {db_car}) \cup {moved},
                        !.operations = @ \cup {db_operation}],
                    Some(db_movement), "none")

\* faulty variant of move_car: an empty from_location is compared as well
move_car_EmptyFromCompared(db, vin, from_location, to_location, date, fault) ==
    LET found == get_car_by_vin(db, vin)
        db_car == Val(found)
        db_movement == [id |-> NextId(db.movements), car_id |-> db_car.id,
                        date |-> date, from_location |-> db_car.location,
                        to_location |-> to_location]
        moved == [db_car EXCEPT !.location = to_location,
                                !.status = _status_by_location(to_location)]
        db_operation == [id |-> NextId(db.operations), car_id |-> db_car.id,
                         operation_type |-> "movement", date |-> date,
                         details |-> <<vin, db_movement.from_location,
                                       to_location>>,
                         user |-> "system"]
    IN  IF IsNone(found) THEN Result(db, None, "none")
        ELSE IF db_car.location # from_location
             THEN Result(db, None, "none")
        ELSE IF fault \in {"flush", "commit"}
             THEN Result(db, None, "OperationalError")
        ELSE Result([db EXCEPT
                        !.movements = @ \cup {db_movement},
                        !.cars = (@ \ {db_car}) \cup {moved},
                        !.operations = @ \cup {db_operation}],
                    Some(db_movement), "none")

\* faulty variant of move_car: the Movement takes from_location from the
\* argument, not from the car
move_car_FromArgument(db, vin, from_location, to_location, date, fault) ==
    LET found == get_car_by_vin(db, vin)
        db_car == Val(found)
        db_movement == [id |-> NextId(db.movements), car_id |-> db_car.id,
                        date |-> date, from_location |-> from_location,
                        to_location |-> to_location]
        moved == [db_car EXCEPT !.location = to_location,
                                !.status = _status_by_location(to_location)]
        db_operation == [id |-> NextId(db.operations), car_id |-> db_car.id,
                         operation_type |-> "movement", date |-> date,
                         details |-> <<vin, db_movement.from_location,
                                       to_location>>,
                         user |-> "system"]
    IN  IF IsNone(found) THEN Result(db, None, "none")
        ELSE IF from_location # "" /\ db_car.location # from_location
             THEN Result(db, None, "none")
        ELSE IF fault \in {"flush", "commit"}
             THEN Result(db, None, "OperationalError")
        ELSE Result([db EXCEPT
                        !.movements = @ \cup {db_movement},
                        !.cars = (@ \ {db_car}) \cup {moved},
                        !.operations = @ \cup {db_operation}],
                    Some(db_movement), "none")

move_car(db, vin, from_location, to_location, date, fault) ==
    LET found == get_car_by_vin(db, vin)
        db_car == Val(found)
        db_movement == [id |-> NextId(db.movements), car_id |-> db_car.id,
                        date |-> date, from_location |-> db_car.location,
                        to_location |-> to_location]
        moved == [db_car EXCEPT !.location = to_location,
                                !.status = _status_by_location(to_location)]
        db_operation == [id |-> NextId(db.operations), car_id |-> db_car.id,
                         operation_type |-> "movement", date |-> date,
                         details |-> <<vin, db_movement.from_location,
                                       to_location>>,
                         user |-> "system"]
    IN  IF IsNone(found) THEN Result(db, None, "none")
        ELSE IF from_location # "" /\ db_car.location # from_location
             THEN Result(db, None, "none")
        ELSE IF fault \in {"flush", "commit"}
             THEN Result(db, None, "OperationalError")
        ELSE Result([db EXCEPT
                        !.movements = @ \cup {db_movement},
                        !.cars = (@ \ {db_car}) \cup {moved},
                        !.operations = @ \cup {db_operation}],
                    Some(db_movement), "none")

create_buyer(db, buyer, fault) ==
    LET db_buyer == [id |-> NextId(db.buyers), name |-> buyer.name,
                     phone |-> buyer.phone, email |-> buyer.email]
    IN  IF fault = "buyer_commit" THEN Result(db, None, "OperationalError")
        ELSE Result([db EXCEPT !.buyers = @ \cup {db_buyer}],
                    Some(db_buyer), "none")

\* faulty variant of sell_car: the check of the sold status is skipped
sell_car_NoSoldCheck(db, vin, sale_price, buyer_name, buyer_phone, buyer_email, sale_date, now, fault) ==
    LET found == get_car_by_vin(db, vin)
        db_car == Val(found)
        known == get_buyer_by_name(db, buyer_name)
        created == create_buyer(db, [name |-> buyer_name,
                                     phone |-> buyer_phone,
                                     email |-> buyer_email], fault)
        db1 == IF IsNone(known) THEN created.db ELSE db
        db_buyer == IF IsNone(known) THEN Val(created.ret) ELSE Val(known)
        sold == [db_car EXCEPT
                    !.status = "sold",
                    !.sale_price = Some(sale_price),
                    !.sale_date = IF IsNone(sale_date) THEN Some(now)
                                  ELSE sale_date,
                    !.buyer_id = Some(db_buyer.id)]
        db_operation == [id |-> NextId(db.operations), car_id |-> db_car.id,
                         operation_type |-> "sale", date |-> Val(sold.sale_date),
                         details |-> <<vin, buyer_name, ToString(sale_price)>>,
                         user |-> "system"]
    IN  IF IsNone(found) THEN Result(db, None, "none")
        ELSE IF FALSE THEN Result(db, None, "none")
        ELSE IF IsNone(known) /\ created.exc # "none"
             THEN Result(db, None, created.exc)
        ELSE IF fault = "commit" THEN Result(db1, None, "OperationalError")
        ELSE Result([db1 EXCEPT
                        !.cars = (@ \ {db_car}) \cup {sold},
                        !.operations = @ \cup {db_operation}],
                    Some(sold), "none")

\* faulty variant of sell_car: the car is committed before the sale Operation is added
sell_car_CommitsCarFirst(db, vin, sale_price, buyer_name, buyer_phone, buyer_email, sale_date, now, fault) ==
    LET found == get_car_by_vin(db, vin)
        db_car == Val(found)
        known == get_buyer_by_name(db, buyer_name)
        created == create_buyer(db, [name |-> buyer_name,
                                     phone |-> buyer_phone,
                                     email |-> buyer_email], fault)
        db1 == IF IsNone(known) THEN created.db ELSE db
        db_buyer == IF IsNone(known) THEN Val(created.ret) ELSE Val(known)
        sold == [db_car EXCEPT
                    !.status = "sold",
                    !.sale_price = Some(sale_price),
                    !.sale_date = IF IsNone(sale_date) THEN Some(now)
                                  ELSE sale_date,
                    !.buyer_id = Some(db_buyer.id)]
        db_operation == [id |-> NextId(db.operations), car_id |-> db_car.id,
                         operation_type |-> "sale", date |-> Val(sold.sale_date),
                         details |-> <<vin, buyer_name, ToString(sale_price)>>,
                         user |-> "system"]
    IN  IF IsNone(found) THEN Result(db, None, "none")
        ELSE IF db_car.status = "sold" THEN Result(db, None, "none")
        ELSE IF IsNone(known) /\ created.exc # "none"
             THEN Result(db, None, created.exc)
        ELSE IF fault = "commit"
             THEN Result([db1 EXCEPT !.cars = (@ \ {db_car}) \cup {sold}], None,
                         "OperationalError")
        ELSE Result([db1 EXCEPT
                        !.cars = (@ \ {db_car}) \cup {sold},
                        !.operations = @ \cup {db_operation}],
                    Some(sold), "none")

sell_car(db, vin, sale_price, buyer_name, buyer_phone, buyer_email, sale_date, now, fault) ==
    LET found == get_car_by_vin(db, vin)
        db_car == Val(found)
        known == get_buyer_by_name(db, buyer_name)
        created == create_buyer(db, [name |-> buyer_name,
                                     phone |-> buyer_phone,
                                     email |-> buyer_email], fault)
        db1 == IF IsNone(known) THEN created.db ELSE db
        db_buyer == IF IsNone(known) THEN Val(created.ret) ELSE Val(known)
        sold == [db_car EXCEPT
                    !.status = "sold",
                    !.sale_price = Some(sale_price),
                    !.sale_date = IF IsNone(sale_date) THEN Some(now)
                                  ELSE sale_date,
                    !.buyer_id = Some(db_buyer.id)]
        db_operation == [id |-> NextId(db.operations), car_id |-> db_car.id,
                         operation_type |-> "sale", date |-> Val(sold.sale_date),
                         details |-> <<vin, buyer_name, ToString(sale_price)>>,
                         user |-> "system"]
    IN  IF IsNone(found) THEN Result(db, None, "none")
        ELSE IF db_car.status = "sold" THEN Result(db, None, "none")
        ELSE IF IsNone(known) /\ created.exc # "none"
             THEN Result(db, None, created.exc)
        ELSE IF fault = "commit" THEN Result(db1, None, "OperationalError")
        ELSE Result([db1 EXCEPT
                        !.cars = (@ \ {db_car}) \cup {sold},
                        !.operations = @ \cup {db_operation}],
                    Some(sold), "none")

\* ------------------------------------------------------------ file_loader.py
\* A CSV file is the sequence of the lines after its header (the header is
\* line 1, rows[i] is line i + 1). A line maps the column names to the text of
\* its cells and has a shape: "row" (as many cells as the header has columns),
\* "blank" (an empty line) or "extra" (more cells than columns, for instance a
\* line that ends with the delimiter).
AlnumVins == VINs \cup {"1HGCM82633A12345"}

validate_vin(vin) ==
    IF vin = "" \/ Len(vin) # 17 THEN FALSE ELSE vin \in AlnumVins

\* datetime.strptime(date_str.strip(), "%Y-%m-%d") on the date texts of the model
validate_date(date_str) ==
    CASE date_str = "2024-01-10" -> Some(1)
      [] date_str = " 2024-02-01 " -> Some(2)
      [] OTHER -> None

\* float(text.replace(",", ".").strip()) on the price texts of the model
ParseFloat(text) ==
    CASE text = "15000" -> Some(15000)
      [] text = " 18500,0" -> Some(18500)
      [] OTHER -> None

\* str.strip() on the cell texts of the model
Strip(text) ==
    CASE text = " Jane Doe " -> "Jane Doe"
      [] text = " showroom " -> "showroom"
      [] text = " " -> ""
      [] OTHER -> text

RowError(row_num, what) == [line |-> row_num, error |-> what]

parse_arrivals_row(row, row_num) ==
    LET date_val == validate_date(row.date)
        vin == Strip(row.vin)
        price == ParseFloat(row.purchase_price)
        model == Strip(row.model)
        color == Strip(row.color)
    IN  IF IsNone(date_val) THEN [ok |-> FALSE, v |-> RowError(row_num, "date")]
        ELSE IF ~validate_vin(vin)
             THEN [ok |-> FALSE, v |-> RowError(row_num, "vin")]
        ELSE IF IsNone(price)
             THEN [ok |-> FALSE, v |-> RowError(row_num, "purchase_price")]
        ELSE IF model = "" \/ color = ""
             THEN [ok |-> FALSE, v |-> RowError(row_num, "model_color")]
        ELSE [ok |-> TRUE,
              v |-> [date |-> Val(date_val), model |-> model, color |-> color,
                     vin |-> vin, purchase_price |-> Val(price)]]

parse_movements_row(row, row_num) ==
    LET date_val == validate_date(row.date)
        vin == Strip(row.vin)
        from_loc == Strip(row.from_location)
        to_loc == Strip(row.to_location)
    IN  IF IsNone(date_val) THEN [ok |-> FALSE, v |-> RowError(row_num, "date")]
        ELSE IF ~validate_vin(vin)
             THEN [ok |-> FALSE, v |-> RowError(row_num, "vin")]
        ELSE IF from_loc = "" \/ to_loc = ""
             THEN [ok |-> FALSE, v |-> RowError(row_num, "locations")]
        ELSE [ok |-> TRUE,
              v |-> [date |-> Val(date_val), vin |-> vin,
                     from_location |-> from_loc, to_location |-> to_loc]]

parse_sales_row(row, row_num) ==
    LET date_val == validate_date(row.date)
        vin == Strip(row.vin)
        buyer_name == Strip(row.buyer_name)
        sale_price == ParseFloat(row.sale_price)
    IN  IF IsNone(date_val) THEN [ok |-> FALSE, v |-> RowError(row_num, "date")]
        ELSE IF ~validate_vin(vin)
             THEN [ok |-> FALSE, v |-> RowError(row_num, "vin")]
        ELSE IF buyer_name = ""
             THEN [ok |-> FALSE, v |-> RowError(row_num, "buyer_name")]
        ELSE IF IsNone(sale_price)
             THEN [ok |-> FALSE, v |-> RowError(row_num, "sale_price")]
        ELSE [ok |-> TRUE,
              v |-> [date |-> Val(date_val), vin |-> vin,
                     buyer_name |-> buyer_name, sale_price |-> Val(sale_price)]]

parse_row(file_type, row, row_num) ==
    CASE file_type = "arrivals" -> parse_arrivals_row(row, row_num)
      [] file_type = "movements" -> parse_movements_row(row, row_num)
      [] file_type = "sales" -> parse_sales_row(row, row_num)

FileLoadResult(success, data, errors) ==
    [success |-> success, data |-> data, errors |-> errors]

\* an exception that leaves the parser
Raised(exc) == [raised |-> exc]

IsRaised(r) == "raised" \in DOMAIN r

IsBlank(line) == line.shape = "blank"

NotBlank(line) == ~IsBlank(line)

\* csv.DictReader yields no row for an empty line
DictReader(lines) == SelectSeq(lines, NotBlank)

\* the loop over enumerate(reader, start=2): rows[i] is the i-th row the
\* reader yields and gets row_num i + 1. The surplus cells of a row are stored
\* under the key None, and k.strip() on that key raises AttributeError, which
\* the except OSError clause does not catch.
RECURSIVE parse_rows(_, _, _, _, _)
parse_rows(file_type, rows, i, data, errors) ==
    IF i > Len(rows) THEN FileLoadResult(errors = <<>>, data, errors)
    ELSE IF rows[i].shape = "extra" THEN Raised("AttributeError")
    ELSE LET r == parse_row(file_type, rows[i], i + 1)
         IN  IF r.ok
             THEN parse_rows(file_type, rows, i + 1, Append(data, r.v), errors)
             ELSE parse_rows(file_type, rows, i + 1, data, Append(errors, r.v))

\* parse_arrivals_file, parse_movements_file, parse_sales_file: a file is
\* [exists, oserror, rows]; oserror = k > 0 says that reading line k + 1 (the
\* k-th after the header) raises OSError, the lines before it having been
\* read, 0 that nothing does
parse_file(file_type, file) ==
    IF ~file.exists
    THEN FileLoadResult(FALSE, <<>>, <<[line |-> 0, error |-> "not_found"]>>)
    ELSE IF file.oserror > 0
    THEN LET read == parse_rows(file_type,
                         DictReader(SubSeq(file.rows, 1, file.oserror - 1)),
                         1, <<>>, <<>>)
         IN  IF IsRaised(read) THEN read
             ELSE FileLoadResult(FALSE, <<>>,
                      Append(read.errors, [line |-> 0, error |-> "oserror"]))
    ELSE parse_rows(file_type, DictReader(file.rows), 1, <<>>, <<>>)

\* ------------------------------------------------------------------ state
\* One client calls the handlers one after the other; the rows of an upload
\* are replayed one commit at a time, and no other call runs in between.
Idle == [kind |-> "idle"]

NoCall == [fn |-> "none"]

\* what the last step did: the handler and its arguments, the HTTP status it
\* answered with (0: a step of the importer), and the crud call it made
NoResult == [parse |-> <<>>, import |-> <<>>]

Called(op, args, http, detail, call) ==
    [op |-> op, args |-> args, http |-> http, detail |-> detail, call |-> call,
     result |-> NoResult]

\* the answer of process_file
Answered(args, parse, import) ==
    [op |-> "process_file", args |-> args, http |-> 200, detail |-> "returned",
     call |-> NoCall, result |-> [parse |-> parse, import |-> import]]

CrudCall(fn, args, r) ==
    [fn |-> fn, args |-> args, returned |-> r.ret # None, exc |-> r.exc]

Store(db) ==
    /\ cars' = db.cars
    /\ movements' = db.movements
    /\ buyers' = db.buyers
    /\ operations' = db.operations

Init ==
    /\ cars = {}
    /\ movements = {}
    /\ buyers = {}
    /\ operations = {}
    /\ job = Idle
    /\ last = Called("startup", <<>>, 0, "", NoCall)
    /\ steps = 0

\* ------------------------------------------------------------------ main.py
\* POST /api/cars
\* faulty variant of CreateCar: the handler does not look the VIN up first
CreateCar_NoPrecheck(car_in, now, fault) ==
    /\ job = Idle
    /\ steps < MaxSteps
    /\ LET r == create_car(DB, car_in, now, fault)
       IN  IF FALSE
           THEN /\ Store(DB)
                /\ last' = Called("create_car", car_in, 400, "duplicate_vin",
                                  NoCall)
           ELSE /\ Store(r.db)
                /\ last' = Called("create_car", car_in,
                                  IF r.exc = "none" THEN 201 ELSE 500,
                                  IF r.exc = "none" THEN "created" ELSE r.exc,
                                  CrudCall("create_car", car_in, r))
    /\ job' = job
    /\ steps' = steps + 1

CreateCar(car_in, now, fault) ==
    /\ job = Idle
    /\ steps < MaxSteps
    /\ LET r == create_car(DB, car_in, now, fault)
       IN  IF ~IsNone(get_car_by_vin(DB, car_in.vin))
           THEN /\ Store(DB)
                /\ last' = Called("create_car", car_in, 400, "duplicate_vin",
                                  NoCall)
           ELSE /\ Store(r.db)
                /\ last' = Called("create_car", car_in,
                                  IF r.exc = "none" THEN 201 ELSE 500,
                                  IF r.exc = "none" THEN "created" ELSE r.exc,
                                  CrudCall("create_car", car_in, r))
    /\ job' = job
    /\ steps' = steps + 1

\* PUT /api/cars/{car_id}
UpdateCar(car_id, car_in, fault) ==
    /\ job = Idle
    /\ steps < MaxSteps
    /\ LET r == update_car(DB, car_id, car_in, fault)
           args == [car_id |-> car_id, update_data |-> car_in]
       IN  /\ Store(r.db)
           /\ last' = Called("update_car", args,
                             IF r.exc # "none" THEN 500
                             ELSE IF IsNone(r.ret) THEN 404 ELSE 200,
                             IF r.exc # "none" THEN r.exc
                             ELSE IF IsNone(r.ret) THEN "not_found"
                             ELSE "updated",
                             CrudCall("update_car", args, r))
    /\ job' = job
    /\ steps' = steps + 1

\* DELETE /api/cars/{car_id}
DeleteCar(car_id, fault) ==
    /\ job = Idle
    /\ steps < MaxSteps
    /\ LET r == delete_car(DB, car_id, fault)
           args == [car_id |-> car_id]
       IN  /\ Store(r.db)
           /\ last' = Called("delete_car", args,
                             IF r.exc # "none" THEN 500
                             ELSE IF r.ret THEN 200 ELSE 404,
                             IF r.exc # "none" THEN r.exc
                             ELSE IF r.ret THEN "deleted" ELSE "not_found",
                             [fn |-> "delete_car", args |-> args,
                              returned |-> r.ret, exc |-> r.exc])
    /\ job' = job
    /\ steps' = steps + 1

\* POST /api/movements; body.date is None when the request gives no date
CreateMovement(body, now, fault) ==
    /\ job = Idle
    /\ steps < MaxSteps
    /\ LET car == get_car_by_vin(DB, body.vin)
           date_val == IF IsNone(body.date) THEN now ELSE Val(body.date)
           args == [vin |-> body.vin, from_location |-> body.from_location,
                    to_location |-> body.to_location, date |-> date_val]
           r == move_car(DB, body.vin, body.from_location, body.to_location,
                         date_val, fault)
       IN  IF IsNone(car)
           THEN /\ Store(DB)
                /\ last' = Called("create_movement", body, 404, "not_found",
                                  NoCall)
           ELSE IF Val(car).status = "sold"
           THEN /\ Store(DB)
                /\ last' = Called("create_movement", body, 400, "already_sold",
                                  NoCall)
           ELSE /\ Store(r.db)
                /\ last' = Called("create_movement", body,
                                  IF r.exc # "none" THEN 500
                                  ELSE IF IsNone(r.ret) THEN 400 ELSE 201,
                                  IF r.exc # "none" THEN r.exc
                                  ELSE IF IsNone(r.ret) THEN "location_mismatch"
                                  ELSE "moved",
                                  CrudCall("move_car", args, r))
    /\ job' = job
    /\ steps' = steps + 1

\* POST /api/sales; body.sale_date is None when the request gives no date
CreateSale(body, now, fault) ==
    /\ job = Idle
    /\ steps < MaxSteps
    /\ LET car == get_car_by_vin(DB, body.vin)
           r == sell_car(DB, body.vin, body.sale_price, body.buyer_name,
                         body.buyer_phone, body.buyer_email, body.sale_date,
                         now, fault)
       IN  IF IsNone(car)
           THEN /\ Store(DB)
                /\ last' = Called("create_sale", body, 404, "not_found", NoCall)
           ELSE IF Val(car).status = "sold"
           THEN /\ Store(DB)
                /\ last' = Called("create_sale", body, 400, "already_sold",
                                  NoCall)
           ELSE /\ Store(r.db)
                /\ last' = Called("create_sale", body,
                                  IF r.exc # "none" THEN 500 ELSE 201,
                                  IF r.exc # "none" THEN r.exc ELSE "sold",
                                  CrudCall("sell_car", body, r))
    /\ job' = job
    /\ steps' = steps + 1

NoImport == [imported |-> 0, skipped |-> 0, errors |-> <<>>]

ParseInfo(parse_result) ==
    [success |-> parse_result.success, data_count |-> Len(parse_result.data),
     errors |-> parse_result.errors]

\* POST /api/files/upload/{arrivals,movements,sales}: process_file parses the
\* file, then replays the parsed rows one at a time (the ImportRow actions)
\* and answers (ReturnImport); with no parsed row it answers at once.
\* job.before is history, not a variable of the code: the VINs the ledger held
\* when the replay began
UploadFile(file_type, file) ==
    /\ job = Idle
    /\ steps < MaxSteps
    /\ LET parse_result == parse_file(file_type, file)
           args == [file_type |-> file_type, file |-> file]
       IN  IF IsRaised(parse_result)
           THEN /\ job' = Idle
                /\ last' = Called("process_file", args, 500,
                                  parse_result.raised, NoCall)
           ELSE IF parse_result.data = <<>>
           THEN /\ job' = Idle
                /\ last' = Answered(args, ParseInfo(parse_result), NoImport)
           ELSE /\ job' = [kind |-> file_type, data |-> parse_result.data,
                           i |-> 1, parse |-> ParseInfo(parse_result),
                           import |-> NoImport,
                           before |-> {c.vin : c \in cars}]
                /\ last' = Called("process_file", args, 0, "parsed", NoCall)
    /\ Store(DB)
    /\ steps' = steps + 1

\* faulty variant of Counted: the two counters are taken for each other
Counted_Swapped(import, what) ==
    IF what = "imported" THEN [import EXCEPT !.skipped = @ + 1]
    ELSE [import EXCEPT !.imported = @ + 1]

Counted(import, what) ==
    IF what = "imported" THEN [import EXCEPT !.imported = @ + 1]
    ELSE [import EXCEPT !.skipped = @ + 1]

\* faulty variant of ImportArrivalsRow: the row is created without looking
\* its VIN up first
ImportArrivalsRow_NoLookup(now, fault) ==
    /\ job.kind = "arrivals"
    /\ job.i <= Len(job.data)
    /\ LET item == job.data[job.i]
           car_in == [vin |-> item.vin, model |-> item.model,
                      color |-> item.color,
                      purchase_price |-> item.purchase_price,
                      arrival_date |-> item.date]
           r == create_car(DB, car_in, now, fault)
       IN  IF r.exc = "none"
           THEN /\ Store(r.db)
                /\ job' = [job EXCEPT !.i = @ + 1,
                                      !.import = Counted(@, "imported")]
                /\ last' = Called("import_arrivals", item, 0, "imported",
                                  CrudCall("create_car", car_in, r))
           ELSE /\ Store(r.db)
                /\ job' = [job EXCEPT
                              !.i = @ + 1,
                              !.import.errors =
                                  Append(@, [vin |-> item.vin, error |-> r.exc])]
                /\ last' = Called("import_arrivals", item, 0, "error",
                                  CrudCall("create_car", car_in, r))
    /\ steps' = steps

\* one turn of the loop of import_arrivals
ImportArrivalsRow(now, fault) ==
    /\ job.kind = "arrivals"
    /\ job.i <= Len(job.data)
    /\ LET item == job.data[job.i]
           car_in == [vin |-> item.vin, model |-> item.model,
                      color |-> item.color,
                      purchase_price |-> item.purchase_price,
                      arrival_date |-> item.date]
           r == create_car(DB, car_in, now, fault)
       IN  IF ~IsNone(get_car_by_vin(DB, item.vin))
           THEN /\ Store(DB)
                /\ job' = [job EXCEPT !.i = @ + 1,
                                      !.import = Counted(@, "skipped")]
                /\ last' = Called("import_arrivals", item, 0, "skipped", NoCall)
           ELSE IF r.exc = "none"
           THEN /\ Store(r.db)
                /\ job' = [job EXCEPT !.i = @ + 1,
                                      !.import = Counted(@, "imported")]
                /\ last' = Called("import_arrivals", item, 0, "imported",
                                  CrudCall("create_car", car_in, r))
           ELSE /\ Store(r.db)
                /\ job' = [job EXCEPT
                              !.i = @ + 1,
                              !.import.errors =
                                  Append(@, [vin |-> item.vin, error |-> r.exc])]
                /\ last' = Called("import_arrivals", item, 0, "error",
                                  CrudCall("create_car", car_in, r))
    /\ steps' = steps

\* faulty variant of ImportMovementsRow: a row that fails is skipped without
\* an error
ImportMovementsRow_SilentSkip(fault) ==
    /\ job.kind = "movements"
    /\ job.i <= Len(job.data)
    /\ LET item == job.data[job.i]
           r == move_car(DB, item.vin, item.from_location, item.to_location,
                         item.date, fault)
           call == CrudCall("move_car", item, r)
       IN  /\ Store(r.db)
           /\ IF r.exc # "none"
              THEN /\ job' = Idle
                   /\ last' = Called("import_movements", item, 500, r.exc, call)
              ELSE IF ~IsNone(r.ret)
              THEN /\ job' = [job EXCEPT !.i = @ + 1,
                                         !.import = Counted(@, "imported")]
                   /\ last' = Called("import_movements", item, 0, "imported",
                                     call)
              ELSE /\ job' = [job EXCEPT
                                 !.i = @ + 1,
                                 !.import = Counted(@, "skipped")]
                   /\ last' = Called("import_movements", item, 0, "skipped",
                                     call)
    /\ steps' = steps

\* one turn of the loop of import_movements; an exception of move_car is not
\* caught and ends the request
ImportMovementsRow(fault) ==
    /\ job.kind = "movements"
    /\ job.i <= Len(job.data)
    /\ LET item == job.data[job.i]
           r == move_car(DB, item.vin, item.from_location, item.to_location,
                         item.date, fault)
           call == CrudCall("move_car", item, r)
       IN  /\ Store(r.db)
           /\ IF r.exc # "none"
              THEN /\ job' = Idle
                   /\ last' = Called("import_movements", item, 500, r.exc, call)
              ELSE IF ~IsNone(r.ret)
              THEN /\ job' = [job EXCEPT !.i = @ + 1,
                                         !.import = Counted(@, "imported")]
                   /\ last' = Called("import_movements", item, 0, "imported",
                                     call)
              ELSE /\ job' = [job EXCEPT
                                 !.i = @ + 1,
                                 !.import = Counted(
                                     [@ EXCEPT !.errors = Append(@,
                                         [vin |-> item.vin,
                                          error |-> "not_found_or_location",
                                          from_location |-> item.from_location,
                                          to_location |-> item.to_location])],
                                     "skipped")]
                   /\ last' = Called("import_movements", item, 0, "skipped",
                                     call)
    /\ steps' = steps

\* one turn of the loop of import_sales; an exception of sell_car is not caught
\* and ends the request
ImportSalesRow(now, fault) ==
    /\ job.kind = "sales"
    /\ job.i <= Len(job.data)
    /\ LET item == job.data[job.i]
           args == [vin |-> item.vin, sale_price |-> item.sale_price,
                    buyer_name |-> item.buyer_name, buyer_phone |-> None,
                    buyer_email |-> None, sale_date |-> Some(item.date)]
           r == sell_car(DB, item.vin, item.sale_price, item.buyer_name,
                         None, None, Some(item.date), now, fault)
           call == CrudCall("sell_car", args, r)
       IN  /\ Store(r.db)
           /\ IF r.exc # "none"
              THEN /\ job' = Idle
                   /\ last' = Called("import_sales", item, 500, r.exc, call)
              ELSE IF ~IsNone(r.ret)
              THEN /\ job' = [job EXCEPT !.i = @ + 1,
                                         !.import = Counted(@, "imported")]
                   /\ last' = Called("import_sales", item, 0, "imported", call)
              ELSE /\ job' = [job EXCEPT
                                 !.i = @ + 1,
                                 !.import = Counted(
                                     [@ EXCEPT !.errors = Append(@,
                                         [vin |-> item.vin,
                                          error |-> "not_found_or_sold"])],
                                     "skipped")]
                   /\ last' = Called("import_sales", item, 0, "skipped", call)
    /\ steps' = steps

\* the return of process_file after the last row
ReturnImport ==
    /\ job # Idle
    /\ job.i > Len(job.data)
    /\ last' = Answered([file_type |-> job.kind], job.parse, job.import)
    /\ job' = Idle
    /\ UNCHANGED <<cars, movements, buyers, operations, steps>>

\* ------------------------------------------------------------------ inputs
CarCreateBodies ==
    [vin : VINs, model : Models, color : Colors, purchase_price : {15000},
     arrival_date : {1}]

MovementBodies ==
    [vin : VINs, from_location : {"", "warehouse"}, to_location : Locations,
     date : {None, Some(2)}]

SaleBodies ==
    {[vin |-> v, sale_price |-> b[1], buyer_name |-> b[2], buyer_phone |-> b[3],
      buyer_email |-> b[4], sale_date |-> b[5]] :
        v \in VINs,
        b \in {<<15000, "Jane Doe", Some("555-0100"), Some("jane@example.com"),
                None>>,
               <<18500, "Jane Doe", None, None, Some(2)>>,
               <<18500, "jane doe", Some("555-0199"), None, Some(1)>>}}

CarIds == 1 .. Cardinality(VINs)

UpdateFields == {"vin", "model", "color", "purchase_price", "sale_price",
                 "status", "location", "arrival_date", "sale_date", "buyer_id"}

\* what a request may give for a field: a value of its type or an explicit null
UpdateValues(f) ==
    {None} \cup
    CASE f = "vin" -> {Some(v) : v \in VINs}
      [] f = "model" -> {Some(m) : m \in Models}
      [] f = "color" -> {Some("White")}
      [] f = "purchase_price" -> {Some(18500)}
      [] f = "sale_price" -> {Some(18500)}
      [] f = "status" -> {Some(st) : st \in Statuses}
      [] f = "location" -> {Some("showroom"), Some("lot")}
      [] f = "arrival_date" -> {Some(2)}
      [] f = "sale_date" -> {Some(2)}
      [] f = "buyer_id" -> {Some(1)}

RawArrivalRows ==
    {[date |-> "2024-01-10", model |-> "Sedan X", color |-> "Black",
      vin |-> "1HGCM82633A123456", purchase_price |-> "15000", shape |-> "row"],
     [date |-> " 2024-02-01 ", model |-> "SUV Y", color |-> "White",
      vin |-> "JH4KA7561PC008269", purchase_price |-> " 18500,0", shape |-> "row"],
     [date |-> "10.01.2024", model |-> "Sedan X", color |-> "Black",
      vin |-> "1HGCM82633A123456", purchase_price |-> "15000", shape |-> "row"]}

RawMovementRows ==
    {[date |-> "2024-01-10", vin |-> "1HGCM82633A123456",
      from_location |-> "warehouse", to_location |-> " showroom ", shape |-> "row"],
     [date |-> " 2024-02-01 ", vin |-> "1HGCM82633A123456",
      from_location |-> "showroom", to_location |-> "lot", shape |-> "row"],
     [date |-> "2024-01-10", vin |-> "1HGCM82633A12345",
      from_location |-> "warehouse", to_location |-> "showroom", shape |-> "row"]}

RawSaleRows ==
    {[date |-> " 2024-02-01 ", vin |-> "1HGCM82633A123456",
      buyer_name |-> " Jane Doe ", sale_price |-> " 18500,0", shape |-> "row"],
     [date |-> "2024-01-10", vin |-> "JH4KA7561PC008269",
      buyer_name |-> " Jane Doe ", sale_price |-> "15000", shape |-> "row"],
     [date |-> " 2024-02-01 ", vin |-> "1HGCM82633A123456",
      buyer_name |-> " ", sale_price |-> "15000", shape |-> "row"]}

RawRows(file_type) ==
    CASE file_type = "arrivals" -> RawArrivalRows
      [] file_type = "movements" -> RawMovementRows
      [] file_type = "sales" -> RawSaleRows

SeqsUpTo(S, n) == UNION {[1 .. k -> S] : k \in 0 .. n}

Files(file_type) ==
    {[exists |-> FALSE, oserror |-> 0, rows |-> <<>>]}
    \cup UNION {{[exists |-> TRUE, oserror |-> k, rows |-> rows] :
                    k \in 0 .. Len(rows)} :
                rows \in SeqsUpTo(RawRows(file_type), MaxRows)}

\* ------------------------------------------------------------------ next
Next ==
    \/ \E car_in \in CarCreateBodies, now \in UtcNow,
          fault \in {"none", "car_commit", "operation_commit"} :
          CreateCar(car_in, now, fault)
    \/ \E car_id \in CarIds, fault \in {"none", "commit"} :
          UpdateCar(car_id, <<>>, fault)
    \/ \E car_id \in CarIds, f1 \in UpdateFields, f2 \in UpdateFields :
          /\ Cardinality({f1, f2}) <= MaxUpdateFields
          /\ \E v1 \in UpdateValues(f1), v2 \in UpdateValues(f2),
                fault \in {"none", "commit"} :
                /\ f1 = f2 => v1 = v2
                /\ UpdateCar(car_id, (f1 :> v1) @@ (f2 :> v2), fault)
    \/ \E car_id \in CarIds, fault \in {"none", "commit"} :
          DeleteCar(car_id, fault)
    \/ \E body \in MovementBodies, now \in UtcNow,
          fault \in {"none", "flush", "commit"} :
          CreateMovement(body, now, fault)
    \/ \E body \in SaleBodies, now \in UtcNow,
          fault \in {"none", "buyer_commit", "commit"} :
          CreateSale(body, now, fault)
    \/ \E file_type \in {"arrivals", "movements", "sales"} :
          \E file \in Files(file_type) : UploadFile(file_type, file)
    \/ \E now \in UtcNow, fault \in {"none", "car_commit", "operation_commit"} :
          ImportArrivalsRow(now, fault)
    \/ \E fault \in {"none", "flush", "commit"} : ImportMovementsRow(fault)
    \/ \E now \in UtcNow, fault \in {"none", "buyer_commit", "commit"} :
          ImportSalesRow(now, fault)
    \/ ReturnImport

Spec == Init /\ [][Next]_vars

\* ------------------------------------------------------------ the parsers
\* The uploads alone, with files that also hold empty lines and lines with
\* surplus cells, replayed with no storage failure.
BlankLine(file_type) ==
    [k \in {"shape"} \cup UNION {DOMAIN r : r \in RawRows(file_type)} |->
        IF k = "shape" THEN "blank" ELSE ""]

ExtraLine(file_type) ==
    LET row == CHOOSE r \in RawRows(file_type) :
                   parse_row(file_type, r, 2).ok /\ r.date = "2024-01-10"
    IN  [row EXCEPT !.shape = "extra"]

RawLines(file_type) ==
    RawRows(file_type) \cup {BlankLine(file_type), ExtraLine(file_type)}

ParseFiles(file_type) ==
    {[exists |-> FALSE, oserror |-> 0, rows |-> <<>>]}
    \cup UNION {{[exists |-> TRUE, oserror |-> k, rows |-> rows] :
                    k \in 0 .. Len(rows)} :
                rows \in SeqsUpTo(RawLines(file_type), MaxRows)}

NextParse ==
    \/ \E file_type \in {"arrivals", "movements", "sales"} :
          \E file \in ParseFiles(file_type) : UploadFile(file_type, file)
    \/ \E now \in UtcNow : ImportArrivalsRow(now, "none")
    \/ ImportMovementsRow("none")
    \/ \E now \in UtcNow : ImportSalesRow(now, "none")
    \/ ReturnImport

SpecParse == Init /\ [][NextParse]_vars

\* ---------------------------------------------------------------- reports.py
\* the place of a string of the model in the order of ORDER BY (SQLite BINARY
\* collation: byte by byte)
Collate(text) ==
    CASE text = "1HGCM82633A123456" -> 1
      [] text = "Black" -> 2
      [] text = "JH4KA7561PC008269" -> 3
      [] text = "SUV Y" -> 4
      [] text = "Sedan X" -> 5
      [] text = "WVWZZZ1JZXW000001" -> 6
      [] text = "White" -> 7

\* car a comes before car b in ORDER BY model, color, vin
OrderedBefore(a, b) ==
    \/ Collate(a.model) < Collate(b.model)
    \/ /\ a.model = b.model
       /\ \/ Collate(a.color) < Collate(b.color)
          \/ /\ a.color = b.color
             /\ Collate(a.vin) < Collate(b.vin)

RECURSIVE order_by(_)
order_by(rows) ==
    IF rows = {} THEN <<>>
    ELSE LET first == CHOOSE a \in rows :
                          \A b \in rows \ {a} : OrderedBefore(a, b)
         IN  <<first>> \o order_by(rows \ {first})

RECURSIVE SumPurchasePrice(_)
SumPurchasePrice(rows) ==
    IF rows = {} THEN 0
    ELSE LET c == CHOOSE c \in rows : TRUE
         IN  c.purchase_price + SumPurchasePrice(rows \ {c})

\* the loop of generate_stock_report over the cars from position i on
RECURSIVE group_cars(_, _, _)
group_cars(rows, i, by_model) ==
    IF i > Len(rows) THEN by_model
    ELSE LET car == rows[i]
             with_model ==
                 IF \E k \in 1 .. Len(by_model) : by_model[k].model = car.model
                 THEN by_model
                 ELSE Append(by_model, [model |-> car.model, count |-> 0,
                                        value |-> 0, by_color |-> <<>>])
             mi == CHOOSE k \in 1 .. Len(with_model) :
                       with_model[k].model = car.model
             by_color_list == with_model[mi].by_color
             with_color ==
                 IF \E k \in 1 .. Len(by_color_list) :
                       by_color_list[k].color = car.color
                 THEN by_color_list
                 ELSE Append(by_color_list, [color |-> car.color, count |-> 0,
                                            cars |-> <<>>])
             ci == CHOOSE k \in 1 .. Len(with_color) :
                       with_color[k].color = car.color
             color_entry ==
                 [with_color[ci] EXCEPT
                     !.count = @ + 1,
                     !.cars = Append(@, [vin |-> car.vin,
                                         purchase_price |-> car.purchase_price,
                                         location |-> car.location])]
         IN  group_cars(rows, i + 1,
                 [with_model EXCEPT
                     ![mi] = [@ EXCEPT
                                 !.count = @ + 1,
                                 !.value = @ + car.purchase_price,
                                 !.by_color =
                                     [with_color EXCEPT ![ci] = color_entry]]])

\* faulty variant of generate_stock_report: only the cars with status
\* in_stock are taken
generate_stock_report_InStockOnly(db) ==
    LET stock == {c \in db.cars : c.status = "in_stock"}
    IN  [total_count |-> Cardinality(stock),
         total_value |-> SumPurchasePrice(stock),
         by_model |-> group_cars(order_by(stock), 1, <<>>)]

generate_stock_report(db) ==
    LET stock == {c \in db.cars : c.status # "sold"}
    IN  [total_count |-> Cardinality(stock),
         total_value |-> SumPurchasePrice(stock),
         by_model |-> group_cars(order_by(stock), 1, <<>>)]

\* GET /api/reports/stock; a read, which does not count as a step
StockReport ==
    /\ job = Idle
    /\ last' = [Called("stock_report", <<>>, 200, "returned", NoCall) EXCEPT
                   !.result = generate_stock_report(DB)]
    /\ UNCHANGED <<cars, movements, buyers, operations, job, steps>>

\* The ledger calls that a stock report depends on, with three cars of two
\* models and two colors, and the report.
ReportVINs == VINs \cup {"WVWZZZ1JZXW000001"}

ReportCarBodies ==
    [vin : ReportVINs, model : Models, color : {"Black", "White"},
     purchase_price : {15000}, arrival_date : {1}]

ReportMovementBodies ==
    [vin : VINs, from_location : {""}, to_location : {"showroom"},
     date : {None}]

ReportSaleBodies ==
    [vin : VINs, sale_price : {18500}, buyer_name : {"Jane Doe"},
     buyer_phone : {None}, buyer_email : {None}, sale_date : {None}]

NextReport ==
    \/ \E car_in \in ReportCarBodies, now \in UtcNow :
          CreateCar(car_in, now, "none")
    \/ \E body \in ReportMovementBodies, now \in UtcNow :
          CreateMovement(body, now, "none")
    \/ \E body \in ReportSaleBodies, now \in UtcNow :
          CreateSale(body, now, "none")
    \/ StockReport

SpecReport == Init /\ [][NextReport]_vars

\* ------------------------------------------------- concurrent POST /api/cars
\* Two callers in the handler create_car at once. Each first looks the VIN up
\* (BeginCreateCar) and, when no car has it, calls crud.create_car
\* (FinishCreateCar); the steps of the callers interleave. job holds the
\* callers that have looked the VIN up and not yet called crud.create_car.
Callers == {"caller_a", "caller_b"}

Pending(caller) ==
    IF job.kind = "create_car"
    THEN {p \in job.pending : p.caller = caller}
    ELSE {}

BeginCreateCar(caller, car_in) ==
    /\ job = Idle \/ job.kind = "create_car"
    /\ Pending(caller) = {}
    /\ steps < MaxSteps
    /\ IF ~IsNone(get_car_by_vin(DB, car_in.vin))
       THEN /\ job' = job
            /\ last' = Called("create_car", car_in, 400, "duplicate_vin",
                              NoCall)
       ELSE /\ job' = [kind |-> "create_car",
                       pending |-> (IF job = Idle THEN {} ELSE job.pending)
                                   \cup {[caller |-> caller,
                                          car_in |-> car_in]}]
            /\ last' = Called("create_car", car_in, 0, "checked", NoCall)
    /\ Store(DB)
    /\ steps' = steps + 1

FinishCreateCar(caller, now) ==
    /\ Pending(caller) # {}
    /\ LET p == CHOOSE p \in job.pending : p.caller = caller
           r == create_car(DB, p.car_in, now, "none")
       IN  /\ Store(r.db)
           /\ last' = Called("create_car", p.car_in,
                             IF r.exc = "none" THEN 201 ELSE 500,
                             IF r.exc = "none" THEN "created" ELSE r.exc,
                             CrudCall("create_car", p.car_in, r))
           /\ job' = IF job.pending = {p} THEN Idle
                     ELSE [job EXCEPT !.pending = @ \ {p}]
    /\ steps' = steps

NextRace ==
    \/ \E caller \in Callers, car_in \in CarCreateBodies :
          BeginCreateCar(caller, car_in)
    \/ \E caller \in Callers, now \in UtcNow : FinishCreateCar(caller, now)

SpecRace == Init /\ [][NextRace]_vars

\* ------------------------------------------------------ the ledger calls
\* create, update, move and sell alone, with no storage failure
NextLedger ==
    \/ \E car_in \in CarCreateBodies, now \in UtcNow :
          CreateCar(car_in, now, "none")
    \/ \E car_id \in CarIds, f \in UpdateFields :
          \E v \in UpdateValues(f) : UpdateCar(car_id, f :> v, "none")
    \/ \E body \in MovementBodies, now \in UtcNow :
          CreateMovement(body, now, "none")
    \/ \E body \in SaleBodies, now \in UtcNow :
          CreateSale(body, now, "none")

SpecLedger == Init /\ [][NextLedger]_vars

\* ------------------------------------------------------------------ claims
MoveOps == {"create_movement", "import_movements"}
SaleOps == {"create_sale", "import_sales"}

SaleFieldsSet(c) ==
    ~IsNone(c.sale_price) /\ ~IsNone(c.sale_date) /\ ~IsNone(c.buyer_id)

DbUnchanged ==
    /\ cars' = cars
    /\ movements' = movements
    /\ buyers' = buyers
    /\ operations' = operations

\* C1: in every reachable state every car has status sold if and only if its
\* sale_price, sale_date and buyer reference are all set.
C1_SoldIffSaleFields ==
    \A c \in cars : (c.status = "sold") <=> SaleFieldsSet(c)

\* C2: a create_car request for a VIN that a car already has is answered with
\* the duplicate-VIN error, and leaves exactly that one car with the VIN,
\* unchanged, and appends no Operation.
C2_DuplicateVinRejected ==
    [][\A c \in cars :
          (last'.op = "create_car" /\ last'.args.vin = c.vin)
          => /\ last'.http = 400
             /\ last'.detail = "duplicate_vin"
             /\ {x \in cars' : x.vin = c.vin} = {c}
             /\ cars' = cars
             /\ operations' = operations]_vars

C2_Witness ==
    /\ last.op = "create_car"
    /\ last.detail = "duplicate_vin"
    /\ Cardinality({x \in cars : x.vin = last.args.vin}) = 1
    /\ \E x \in cars : x.vin = last.args.vin /\ x.model # last.args.model

\* C3: a move of an existing car with a non-empty from_location that differs
\* from the car's current location fails and leaves the car, the Movement
\* records and the Operation log as they were.
C3_MismatchChangesNothing ==
    [][\A c \in cars :
          (/\ last'.op \in MoveOps
           /\ last'.args.vin = c.vin
           /\ last'.args.from_location # ""
           /\ last'.args.from_location # c.location)
          => /\ last'.detail \in {"location_mismatch", "already_sold", "skipped"}
             /\ last'.call.fn = "move_car" => ~last'.call.returned
             /\ c \in cars'
             /\ cars' = cars
             /\ movements' = movements
             /\ operations' = operations]_vars

C3_Witness ==
    /\ last.op = "create_movement"
    /\ last.detail = "location_mismatch"
    /\ \E c \in cars : /\ c.vin = last.args.vin
                       /\ c.location # last.args.from_location
                       /\ c.location # last.args.to_location

\* C4: a sale of a car that is already sold fails as already sold, leaves the
\* car's sale_price, sale_date and buyer reference as the first sale set them,
\* creates no Buyer and appends no Operation.
C4_ResaleRejected ==
    [][\A c \in cars :
          (/\ last'.op \in SaleOps
           /\ last'.args.vin = c.vin
           /\ c.status = "sold")
          => /\ \/ last'.http = 400 /\ last'.detail = "already_sold"
                \/ /\ last'.op = "import_sales"
                   /\ last'.detail = "skipped"
                   /\ ~last'.call.returned
             /\ c \in cars'
             /\ buyers' = buyers
             /\ operations' = operations]_vars

C4_Witness ==
    /\ last.op = "create_sale"
    /\ last.detail = "already_sold"
    /\ \E c \in cars, o \in operations :
          /\ c.vin = last.args.vin
          /\ SaleFieldsSet(c)
          /\ o.car_id = c.id /\ o.operation_type = "sale"
          /\ Val(c.sale_price) # last.args.sale_price
          /\ \A b \in buyers : b.name # last.args.buyer_name

\* the car c was sold by sell_car: it is marked sold and the log holds its sale
SoldBySellCar(c) ==
    /\ c.status = "sold"
    /\ \E o \in operations : o.car_id = c.id /\ o.operation_type = "sale"

\* C5: once sell_car has succeeded for a car, no later move or sale of that
\* car, by request or by the batch importer, changes its status or location.
C5_SoldIsTerminal ==
    [][\A c \in cars :
          (/\ SoldBySellCar(c)
           /\ last'.op \in MoveOps \cup SaleOps
           /\ last'.args.vin = c.vin)
          => \E x \in cars' : /\ x.id = c.id
                              /\ x.status = "sold"
                              /\ x.location = c.location]_vars

\* C6: update_car leaves the status and the location of the car as they were.
C6_UpdateKeepsStatusLocation ==
    [][\A c \in cars :
          (last'.op = "update_car" /\ last'.args.car_id = c.id)
          => \E x \in cars' : /\ x.id = c.id
                              /\ x.status = c.status
                              /\ x.location = c.location]_vars

\* the rows a step adds to a table
Added(before, after) == after \ before

\* C7: a move commits all of its three effects (the Movement, the car's new
\* location and status, the movement Operation) or none of them, also when it
\* fails part-way.
C7_MoveAtomic ==
    [][last'.call.fn = "move_car"
       => \/ /\ ~last'.call.returned
             /\ cars' = cars
             /\ movements' = movements
             /\ operations' = operations
          \/ /\ last'.call.returned
             /\ last'.call.exc = "none"
             /\ \E c \in cars, m \in Added(movements, movements'),
                   o \in Added(operations, operations') :
                   /\ c.vin = last'.call.args.vin
                   /\ movements' = movements \cup {m}
                   /\ m.car_id = c.id
                   /\ m.to_location = last'.call.args.to_location
                   /\ operations' = operations \cup {o}
                   /\ o.car_id = c.id
                   /\ o.operation_type = "movement"
                   /\ \E x \in cars' :
                         /\ x.id = c.id
                         /\ x.location = last'.call.args.to_location
                         /\ cars' = (cars \ {c}) \cup {x}]_vars

C7_Witness ==
    /\ last.call.fn = "move_car"
    /\ last.call.exc = "OperationalError"
    /\ \E c \in cars : /\ c.vin = last.call.args.vin
                       /\ c.location # last.call.args.to_location
    /\ movements # {}

\* C8: a sale marks the car sold, with its sale_price, sale_date and buyer
\* reference, in the same commit that appends the sale Operation: a step of
\* sell_car persists both or neither.
C8_SaleAtomic ==
    [][last'.call.fn = "sell_car"
       => \/ /\ ~last'.call.returned
             /\ cars' = cars
             /\ operations' = operations
          \/ /\ last'.call.returned
             /\ \E c \in cars, o \in Added(operations, operations') :
                   /\ c.vin = last'.call.args.vin
                   /\ operations' = operations \cup {o}
                   /\ o.car_id = c.id
                   /\ o.operation_type = "sale"
                   /\ \E x \in cars' :
                         /\ x.id = c.id
                         /\ x.status = "sold"
                         /\ x.sale_price = Some(last'.call.args.sale_price)
                         /\ ~IsNone(x.sale_date)
                         /\ \E b \in buyers' :
                               /\ x.buyer_id = Some(b.id)
                               /\ b.name = last'.call.args.buyer_name
                         /\ cars' = (cars \ {c}) \cup {x}]_vars

C8_Witness ==
    /\ last.call.fn = "sell_car"
    /\ last.call.returned
    /\ \E c \in cars, o \in operations :
          /\ c.vin = last.call.args.vin
          /\ c.status = "sold"
          /\ SaleFieldsSet(c)
          /\ o.car_id = c.id
          /\ o.operation_type = "sale"

\* C9: when create_car or sell_car fails at an intermediate point, the
\* persisted state equals the state before the call.
C9_FailureChangesNothing ==
    [][(last'.call.fn \in {"create_car", "sell_car"} /\ last'.call.exc # "none")
       => DbUnchanged]_vars

\* C10: an Operation entry, once written, is never altered, and is removed
\* only by the delete_car of the car it references.
C10_LogAppendOnly ==
    [][\A o \in operations :
          \/ o \in operations'
          \/ /\ last'.op = "delete_car"
             /\ last'.detail = "deleted"
             /\ last'.args.car_id = o.car_id]_vars

C10_Witness ==
    /\ last.op = "delete_car"
    /\ last.detail = "deleted"
    /\ operations # {}
    /\ \A o \in operations : o.car_id # last.args.car_id

\* C11: delete_car of an existing car removes that car with every Movement
\* and every Operation that references it and leaves every other car, their
\* Movements and Operations and all Buyers as they were; for an id no car has
\* it answers not found and changes nothing.
C11_DeleteCascade ==
    [][last'.op = "delete_car" =>
          LET car_id == last'.args.car_id
          IN  IF \E c \in cars : c.id = car_id
              THEN \/ /\ last'.http = 200
                      /\ cars' = {c \in cars : c.id # car_id}
                      /\ movements' = {m \in movements : m.car_id # car_id}
                      /\ operations' = {o \in operations : o.car_id # car_id}
                      /\ buyers' = buyers
                   \/ /\ last'.http = 500
                      /\ last'.call.exc = "OperationalError"
                      /\ DbUnchanged
              ELSE /\ last'.http = 404
                   /\ last'.detail = "not_found"
                   /\ DbUnchanged]_vars

\* a car is deleted while another car, with a Movement and Operations of its
\* own, stays
C11_Witness ==
    /\ last.op = "delete_car"
    /\ last.detail = "deleted"
    /\ \E c \in cars :
          /\ c.id # last.args.car_id
          /\ \E m \in movements : m.car_id = c.id
          /\ \E o \in operations : o.car_id = c.id
    /\ \A m \in movements : m.car_id # last.args.car_id
    /\ \A o \in operations : o.car_id # last.args.car_id

\* the VINs of the parsed rows are pairwise distinct
DistinctVins(data) ==
    \A i \in 1 .. Len(data), k \in 1 .. Len(data) :
        data[i].vin = data[k].vin => i = k

\* C12: an arrivals batch of N valid rows whose VINs are pairwise distinct and
\* not yet in the ledger, replayed with no storage failure, answers
\* imported = N and skipped = 0 and leaves exactly N new cars, each with
\* status in_stock and location warehouse.
C12_ArrivalsBatchAllImported ==
    [][(/\ job # Idle
        /\ job.kind = "arrivals"
        /\ job' = Idle
        /\ last'.op = "process_file"
        /\ last'.detail = "returned"
        /\ DistinctVins(job.data)
        /\ \A i \in 1 .. Len(job.data) : job.data[i].vin \notin job.before
        /\ job.import.errors = <<>>)
       => /\ last'.result.import.imported = Len(job.data)
          /\ last'.result.import.skipped = 0
          /\ Cardinality(cars') = Cardinality(job.before) + Len(job.data)
          /\ \A i \in 1 .. Len(job.data) :
                \E c \in cars' : /\ c.vin = job.data[i].vin
                                 /\ c.status = "in_stock"
                                 /\ c.location = "warehouse"]_vars

\* an upload of two arrivals with distinct new VINs has been answered
C12_Witness ==
    /\ last.op = "process_file"
    /\ last.detail = "returned"
    /\ last.args.file_type = "arrivals"
    /\ last.result.parse.data_count = 2
    /\ last.result.import = [imported |-> 2, skipped |-> 0, errors |-> <<>>]
    /\ Cardinality(cars) = 2
    /\ \A c \in cars : c.status = "in_stock" /\ c.location = "warehouse"

ImportOps == {"import_arrivals", "import_movements", "import_sales"}

\* C13: in a batch import of any record type a row that fails never ends the
\* batch: after the replay of a row that has later rows, whatever its outcome,
\* the import goes on with the next row of the same batch.
C13_RowFailureKeepsBatch ==
    [][(/\ job # Idle
        /\ job.i < Len(job.data)
        /\ last'.op \in ImportOps)
       => /\ job' # Idle
          /\ job'.kind = job.kind
          /\ job'.data = job.data
          /\ job'.i = job.i + 1]_vars

\* the state right after process_file has parsed an upload
Uploaded == last.op = "process_file" /\ "file" \in DOMAIN last.args

ParsedData == IF job = Idle THEN <<>> ELSE job.data

ParsedErrors ==
    IF job = Idle THEN last.result.parse.errors ELSE job.parse.errors

\* C14: parsing a readable file is row by row: every data row (a line that is
\* not empty) yields exactly one record or exactly one error that carries
\* the 1-based number of its line in the file, and a malformed row keeps no
\* well-formed row from being returned.
C14_RowIndependentParsing ==
    (Uploaded /\ last.args.file.exists /\ last.args.file.oserror = 0) =>
        LET rows == last.args.file.rows
            file_type == last.args.file_type
            DataRows == {i \in 1 .. Len(rows) : NotBlank(rows[i])}
            WellFormed ==
                {i \in DataRows : parse_row(file_type, rows[i], i + 1).ok}
            Malformed == DataRows \ WellFormed
        IN  /\ last.http # 500
            /\ Len(ParsedData) = Cardinality(WellFormed)
            /\ \A i \in WellFormed :
                  \E k \in 1 .. Len(ParsedData) :
                      ParsedData[k] = parse_row(file_type, rows[i], i + 1).v
            /\ Len(ParsedErrors) = Cardinality(Malformed)
            /\ \A i \in Malformed :
                  Cardinality({k \in 1 .. Len(ParsedErrors) :
                                  ParsedErrors[k].line = i + 1}) = 1

\* C15: when the file is missing, or reading it fails at any point, parsing
\* answers with no data row and exactly one error, the aggregate one (no
\* per-row error and no record of the rows read before the failure), and the
\* import changes no state.
C15_UnreadableFileOneError ==
    [][(/\ last'.op = "process_file"
        /\ "file" \in DOMAIN last'.args
        /\ \/ ~last'.args.file.exists
           \/ last'.args.file.oserror > 0)
       => /\ last'.http = 200
          /\ last'.result.parse.data_count = 0
          /\ Len(last'.result.parse.errors) = 1
          /\ last'.result.parse.errors[1].line = 0
          /\ last'.result.import = NoImport
          /\ job' = Idle
          /\ DbUnchanged]_vars

RowFails(op, item) ==
    \/ \A c \in cars : c.vin # item.vin
    \/ /\ op = "import_movements"
       /\ \E c \in cars : c.vin = item.vin /\ c.location # item.from_location
    \/ /\ op = "import_sales"
       /\ \E c \in cars : c.vin = item.vin /\ c.status = "sold"

\* C17: in a movements or sales import every row whose replay fails (car not
\* found, location mismatch, car already sold) adds one to skipped and
\* appends exactly one error, which names the row's VIN; so the answer of the
\* batch has imported + skipped = number of rows and as many import errors
\* as skipped rows.
C17_FailedRowSkippedWithError ==
    [][/\ (/\ last'.op \in {"import_movements", "import_sales"}
           /\ RowFails(last'.op, last'.args))
          => /\ job' # Idle
             /\ job'.import.skipped = job.import.skipped + 1
             /\ job'.import.imported = job.import.imported
             /\ Len(job'.import.errors) = Len(job.import.errors) + 1
             /\ SubSeq(job'.import.errors, 1, Len(job.import.errors))
                    = job.import.errors
             /\ job'.import.errors[Len(job'.import.errors)].vin
                    = last'.args.vin
             /\ DbUnchanged
       /\ (/\ job # Idle
           /\ job.kind \in {"movements", "sales"}
           /\ job' = Idle
           /\ last'.op = "process_file"
           /\ last'.detail = "returned")
          => /\ last'.result.import.imported + last'.result.import.skipped
                    = Len(job.data)
             /\ Len(last'.result.import.errors)
                    = last'.result.import.skipped]_vars

\* a batch of two rows has been answered: one row imported, one skipped with
\* its error
C17_Witness ==
    /\ last.op = "process_file"
    /\ last.detail = "returned"
    /\ last.args.file_type \in {"movements", "sales"}
    /\ last.result.parse.data_count = 2
    /\ last.result.import.imported = 1
    /\ last.result.import.skipped = 1
    /\ Len(last.result.import.errors) = 1
    /\ \E c \in cars : c.vin = last.result.import.errors[1].vin

CarColumns == {"vin", "model", "color", "purchase_price", "sale_price",
               "status", "location", "arrival_date", "sale_date", "buyer_id"}

\* the value of a column of a car, as a request would give it
FieldAsOption(c, f) == IF f \in NotNullColumns THEN Some(c[f]) ELSE c[f]

\* the car c has become a car with the same id whose columns are those of
\* update_data where it has them and those of c elsewhere; nothing else moved
UpdateApplied(c, update_data) ==
    /\ last'.http = 200
    /\ \E x \in cars' :
          /\ x.id = c.id
          /\ cars' = (cars \ {c}) \cup {x}
          /\ \A f \in CarColumns :
                FieldAsOption(x, f) = IF f \in DOMAIN update_data
                                      THEN update_data[f]
                                      ELSE FieldAsOption(c, f)
    /\ movements' = movements
    /\ buyers' = buyers
    /\ operations' = operations

\* the storage constraints refuse the update: a NOT NULL column given as null,
\* or the VIN of another car
UpdateRefused(c, update_data) ==
    \/ \E f \in DOMAIN update_data \cap NotNullColumns : IsNone(update_data[f])
    \/ /\ "vin" \in DOMAIN update_data
       /\ ~IsNone(update_data["vin"])
       /\ \E o \in cars \ {c} : o.vin = Val(update_data["vin"])

\* C18 as the spec states it: update_car of an existing car changes exactly
\* the fields given, a field given as null being cleared, and nothing else;
\* for an id no car has it answers not found and changes nothing.
C18_UpdateClearsAnyField ==
    [][(last'.op = "update_car" /\ last'.call.exc # "OperationalError") =>
          LET car_id == last'.args.car_id
              update_data == last'.args.update_data
          IN  IF \E c \in cars : c.id = car_id
              THEN UpdateApplied(CHOOSE c \in cars : c.id = car_id,
                                 update_data)
              ELSE last'.http = 404 /\ DbUnchanged]_vars

\* C18, amended: update_car of an existing car, unless the storage refuses it
\* (a NOT NULL column given as null, the VIN of another car, a failing
\* commit), changes exactly the fields given, a nullable field (sale_price,
\* sale_date, buyer_id) given as null being cleared, and nothing else; a
\* refused update fails and changes nothing; for an id no car has it answers
\* not found and changes nothing.
C18_UpdateAppliesGivenFields ==
    [][last'.op = "update_car" =>
          LET car_id == last'.args.car_id
              update_data == last'.args.update_data
          IN  IF \E c \in cars : c.id = car_id
              THEN LET c == CHOOSE c \in cars : c.id = car_id
                   IN  IF \/ UpdateRefused(c, update_data)
                          \/ last'.call.exc = "OperationalError"
                       THEN last'.http = 500 /\ DbUnchanged
                       ELSE UpdateApplied(c, update_data)
              ELSE last'.http = 404 /\ DbUnchanged]_vars

\* the sale price of a sold car has been cleared by an update that gave it as
\* null
C18_Witness ==
    /\ last.op = "update_car"
    /\ last.http = 200
    /\ DOMAIN last.args.update_data = {"sale_price"}
    /\ IsNone(last.args.update_data["sale_price"])
    /\ \E c \in cars : /\ c.id = last.args.car_id
                       /\ IsNone(c.sale_price)
                       /\ ~IsNone(c.sale_date)
                       /\ ~IsNone(c.buyer_id)

\* C19: a sale that sell_car makes references the Buyer that has exactly the
\* given name when there is one, and then creates no Buyer and leaves the
\* phone and the email of that Buyer as they were; when there is none it
\* creates exactly one Buyer, with the given name, phone and email, and
\* references it.
C19_BuyerResolution ==
    [][(last'.call.fn = "sell_car" /\ last'.call.returned) =>
          LET a == last'.call.args
              sold == CHOOSE c \in cars' : c.vin = a.vin
          IN  IF \E b \in buyers : b.name = a.buyer_name
              THEN /\ buyers' = buyers
                   /\ \E b \in buyers : /\ b.name = a.buyer_name
                                        /\ sold.buyer_id = Some(b.id)
              ELSE \E nb \in buyers' :
                      /\ nb \notin buyers
                      /\ buyers' = buyers \cup {nb}
                      /\ \A b \in buyers : b.id # nb.id
                      /\ nb.name = a.buyer_name
                      /\ nb.phone = a.buyer_phone
                      /\ nb.email = a.buyer_email
                      /\ sold.buyer_id = Some(nb.id)]_vars

\* a second car has been sold to a Buyer that was there, under other contact
\* details than the sale gives
C19_Witness ==
    /\ last.call.fn = "sell_car"
    /\ last.call.returned
    /\ Cardinality(buyers) = 1
    /\ \E b \in buyers :
          /\ b.name = last.call.args.buyer_name
          /\ b.phone # last.call.args.buyer_phone
          /\ Cardinality({c \in cars : c.buyer_id = Some(b.id)}) = 2

RECURSIVE SumCounts(_)
SumCounts(groups) ==
    IF groups = <<>> THEN 0
    ELSE Head(groups).count + SumCounts(Tail(groups))

\* C20: the stock report's total_count is the number of cars whose status is
\* not sold and the sum of the counts of its models, and the count of each
\* model is the sum of the counts of its color groups.
C20_StockReportCounts ==
    last.op = "stock_report" =>
        /\ last.result.total_count
               = Cardinality({c \in cars : c.status # "sold"})
        /\ last.result.total_count = SumCounts(last.result.by_model)
        /\ \A k \in 1 .. Len(last.result.by_model) :
              last.result.by_model[k].count
                  = SumCounts(last.result.by_model[k].by_color)

\* a report of three cars: two models, one of them in two colors
C20_Witness ==
    /\ last.op = "stock_report"
    /\ last.result.total_count = 3
    /\ Len(last.result.by_model) = 2
    /\ \E k \in 1 .. 2 : Len(last.result.by_model[k].by_color) = 2

\* C21: move_car, when the storage does not fail, succeeds if and only if a
\* car has the VIN and from_location is empty or is exactly the location of
\* that car; an empty from_location succeeds for every car, wherever it is.
C21_MoveSucceedsIff ==
    [][(last'.call.fn = "move_car" /\ last'.call.exc = "none") =>
          LET a == last'.call.args
          IN  last'.call.returned <=>
                  \E c \in cars :
                      /\ c.vin = a.vin
                      /\ (a.from_location = "" \/ c.location = a.from_location)]_vars

\* a move with an empty from_location has succeeded for a car that was not at
\* the warehouse
C21_Witness ==
    /\ last.call.fn = "move_car"
    /\ last.call.returned
    /\ last.call.args.from_location = ""
    /\ \E c \in cars, m \in movements :
          /\ c.vin = last.call.args.vin
          /\ m.car_id = c.id
          /\ m.id = Max({x.id : x \in movements})
          /\ m.from_location # "warehouse"
          /\ m.to_location = last.call.args.to_location

\* C22: after every move_car that succeeds there is exactly one new Movement,
\* whose from_location is the location the car had right before the call
\* (also when the argument from_location was empty) and whose to_location is
\* the argument to_location; the location of the car is to_location; and
\* exactly one new Operation, of type movement, has been appended for the car.
C22_MoveRecordsSnapshot ==
    [][(last'.call.fn = "move_car" /\ last'.call.returned) =>
          LET a == last'.call.args
              before == CHOOSE c \in cars : c.vin = a.vin
          IN  /\ \E m \in movements' :
                    /\ Added(movements, movements') = {m}
                    /\ m.car_id = before.id
                    /\ m.from_location = before.location
                    /\ m.to_location = a.to_location
              /\ movements \subseteq movements'
              /\ \E c \in cars' : /\ c.id = before.id
                                  /\ c.vin = a.vin
                                  /\ c.location = a.to_location
              /\ \E o \in operations' :
                    /\ Added(operations, operations') = {o}
                    /\ o.car_id = before.id
                    /\ o.operation_type = "movement"
              /\ operations \subseteq operations']_vars

\* a move with an empty from_location has recorded the warehouse, where the
\* car was, as from_location
C22_Witness ==
    /\ last.call.fn = "move_car"
    /\ last.call.returned
    /\ last.call.args.from_location = ""
    /\ \E c \in cars, m \in movements, o \in operations :
          /\ c.vin = last.call.args.vin
          /\ c.location = last.call.args.to_location
          /\ m.car_id = c.id
          /\ m.from_location = "warehouse"
          /\ m.to_location = c.location
          /\ o.car_id = c.id
          /\ o.operation_type = "movement"
          /\ Cardinality({x \in movements : x.car_id = c.id}) = 1

\* C23: the status derived from a location is defined for every location:
\* the names of the warehouse, the showroom and the service, in any case and
\* with blanks around them, give in_stock, in_showroom and in_service, every
\* other string gives in_stock, and none gives sold; after every move_car
\* that succeeds the status of the car is the one derived from to_location.
C23_StatusDerivedFromLocation ==
    [][(last'.call.fn = "move_car" /\ last'.call.returned) =>
          LET a == last'.call.args
              site == LowerStrip(a.to_location)
              moved == CHOOSE c \in cars' : c.vin = a.vin
          IN  /\ site = "warehouse" => moved.status = "in_stock"
              /\ site = "showroom" => moved.status = "in_showroom"
              /\ site = "service" => moved.status = "in_service"
              /\ site \notin {"warehouse", "showroom", "service"}
                     => moved.status = "in_stock"
              /\ moved.status # "sold"]_vars

\* a car has been moved to the service, named in another case and with blanks
\* around, and is in_service
C23_Witness ==
    /\ last.call.fn = "move_car"
    /\ last.call.returned
    /\ last.call.args.to_location = " Service "
    /\ \E c \in cars : /\ c.vin = last.call.args.vin
                       /\ c.location = " Service "
                       /\ c.status = "in_service"

\* C24: when two callers create a car with the same VIN at once and both have
\* looked the VIN up before either inserts, one car with that VIN is stored
\* and the caller that inserts second gets the error that the lookup gives
\* for a VIN that exists (HTTP 400, duplicate VIN), with nothing of its call
\* left behind.
C24_RaceLoserGetsDuplicateVin ==
    [][(/\ last'.call.fn = "create_car"
        /\ \E c \in cars : c.vin = last'.args.vin)
       => /\ last'.http = 400
          /\ last'.detail = "duplicate_vin"
          /\ DbUnchanged
          /\ Cardinality({c \in cars' : c.vin = last'.args.vin}) = 1]_vars

\* C25: after any sequence of create, update, move and sell, every car that
\* is not sold has the status derived from its location.
C25_StatusFollowsLocation ==
    \A c \in cars :
        c.status # "sold" => c.status = _status_by_location(c.location)

\* the Movements of a car
MovementsOf(c) == {m \in movements : m.car_id = c.id}

\* C26: after any sequence of create, update, move and sell, the Movements of
\* every car, in the order they were created, form a chain: the first starts
\* at the warehouse, each later one starts where the one before it ended, and
\* the last ends at the location of the car.
C26_MovementChain ==
    \A c \in cars :
        \A m \in MovementsOf(c) :
            LET earlier == {x \in MovementsOf(c) : x.id < m.id}
                later == {x \in MovementsOf(c) : x.id > m.id}
            IN  /\ m.from_location =
                       IF earlier = {} THEN "warehouse"
                       ELSE (CHOOSE x \in earlier :
                                 x.id = Max({y.id : y \in earlier})).to_location
                /\ later = {} => m.to_location = c.location

====
